---- MODULE Spec2Model ----
(***************************************************************************)
(* Model of the skills CLI of src/bin/cli.js.                              *)
(*                                                                         *)
(* The file holds two scripts: the current CLI (lines 1-192, "script 1")   *)
(* and the earlier CLI (lines 194-273, "script 2").  Both act on the same  *)
(* two directory trees: the local repository (repoDir / sourceDir) and the *)
(* Store (skillsDir).  A path is a sequence of names relative to the root  *)
(* of its tree, a tree is the set of the paths that exist in it, and the   *)
(* empty path is the root itself.  One run of a script is one action: the  *)
(* scripts are synchronous and single-threaded.  The external client that  *)
(* script 1 launches (npx skills) is a process of its own: child is the    *)
(* state of the client launched by the latest run.  Two runs at the same   *)
(* time are two processes, each at its own place (pc) in installLocalSkill.*)
(***************************************************************************)
EXTENDS Integers, Sequences, FiniteSets, TLC

VARIABLES repo, store, last, child, pc

vars == <<repo, store, last, child, pc>>

(***************************************************************************)
(* Bounds of the model.                                                    *)
(***************************************************************************)
\* The most directories a local repository has (bin, the CLI's own, included).
MaxRepoDirs == 3

\* The directories a scanned tree may have.
DirUniverse ==
  { <<"a">>, <<"b">>, <<"bin">>, <<"a", "b">>, <<"a", "bin">>, <<"bin", "a">> }

\* The directories the local repository of the commands may have.
RepoUniverse == { <<"a">>, <<"b">>, <<"bin">>, <<"a", "b">> }

(***************************************************************************)
(* Names and paths.                                                        *)
(***************************************************************************)
MANIFEST == "SKILL.md"

Root == << >>

ExcludedNames == {"bin", ".git", "node_modules"}

DirNames == {"a", "b", "bin"}

Names == DirNames \cup {MANIFEST}

IsPrefix(p, q) == Len(p) <= Len(q) /\ SubSeq(q, 1, Len(p)) = p

Prefixes(p) == { SubSeq(p, 1, n) : n \in 0..Len(p) }

Last(p) == p[Len(p)]

\* path.dirname
dirname(p) == SubSeq(p, 1, Len(p) - 1)

\* path.join normalises the path it builds: a "." component is dropped and
\* a ".." component takes the component before it away.
RECURSIVE normalize(_, _)
normalize(done, rest) ==
  IF rest = << >> THEN done
  ELSE IF Head(rest) = "." THEN normalize(done, Tail(rest))
  ELSE IF Head(rest) = ".." /\ done # << >> /\ Last(done) # ".."
  THEN normalize(dirname(done), Tail(rest))
  ELSE normalize(Append(done, Head(rest)), Tail(rest))

\* path.join(base, name), both relative to the root of the tree
join(base, name) == normalize(<< >>, base \o name)

\* The paths of tree at or below p.
Subtree(tree, p) == { q \in tree : IsPrefix(p, q) }

SeqRange(s) == { s[i] : i \in 1..Len(s) }

(***************************************************************************)
(* File-system primitives used by the scripts.                             *)
(***************************************************************************)
existsSync(tree, p) == p \in tree

\* fs.statSync(p).isDirectory(): in the model the manifest is the only file.
isDirectory(tree, p) == p \in tree /\ (p = Root \/ Last(p) # MANIFEST)

\* fs.readdirSync(dir): the entries of dir, in the order the file system
\* gives them (order is a permutation of Names).
readdirSync(tree, dir, order) ==
  SelectSeq(order, LAMBDA n : Append(dir, n) \in tree)

\* fs.mkdirSync(p, {recursive: true})
mkdirSync(tree, p) == tree \cup Prefixes(p)

\* A removal that deletes the files and leaves the directories.
rmSyncFilesOnly(tree, gone) ==
  tree \ { q \in gone : q # Root /\ Last(q) = MANIFEST }

\* fs.rmSync(p, {recursive: true}) that removes the paths in gone.
rmSync(tree, gone) == tree \ gone

\* The orders of the model: by name, ascending (the order most file systems
\* give) and descending.
Orders ==
  { <<MANIFEST, "a", "b", "bin">>, <<"bin", "b", "a", MANIFEST>> }

(***************************************************************************)
(* getLocalSkills (script 1, lines 13-32).                                 *)
(***************************************************************************)
\* A scanner that prunes nothing.
skipItemNever(item) == FALSE

\* line 22
skipItem(item) == item \in ExcludedNames

\* line 24
hasManifest(tree, fullPath) == existsSync(tree, Append(fullPath, MANIFEST))

RECURSIVE getLocalSkills(_, _, _)
RECURSIVE scanItems(_, _, _, _)

\* A scan that pushes a skill directory a second time after the descent.
scanItemPushesTwice(tree, fullPath, item, order) ==
  IF ~isDirectory(tree, fullPath) THEN << >>
  ELSE IF skipItem(item) THEN << >>
  ELSE (IF hasManifest(tree, fullPath) THEN <<fullPath>> ELSE << >>)
       \o getLocalSkills(tree, fullPath, order)
       \o (IF hasManifest(tree, fullPath) THEN <<fullPath>> ELSE << >>)

\* A scan that does not look below a directory that is a skill.
scanItemStopsAtSkill(tree, fullPath, item, order) ==
  IF ~isDirectory(tree, fullPath) THEN << >>
  ELSE IF skipItem(item) THEN << >>
  ELSE IF hasManifest(tree, fullPath) THEN <<fullPath>>
  ELSE getLocalSkills(tree, fullPath, order)

\* lines 21-29: what one directory entry adds to results.
scanItem(tree, fullPath, item, order) ==
  IF ~isDirectory(tree, fullPath) THEN << >>
  ELSE IF skipItem(item) THEN << >>
  ELSE (IF hasManifest(tree, fullPath) THEN <<fullPath>> ELSE << >>)
       \o getLocalSkills(tree, fullPath, order)

\* lines 17-30: the loop over the entries.
scanItems(tree, dir, order, list) ==
  IF list = << >> THEN << >>
  ELSE scanItem(tree, Append(dir, Head(list)), Head(list), order)
       \o scanItems(tree, dir, order, Tail(list))

getLocalSkills(tree, dir, order) ==
  scanItems(tree, dir, order, readdirSync(tree, dir, order))

\* The number of calls of getLocalSkills that one call makes, itself
\* included: one for each directory it descends into (line 28).
RECURSIVE scanCalls(_, _, _)
RECURSIVE scanCallsItems(_, _, _, _)

scanCallsItems(tree, dir, order, list) ==
  IF list = << >> THEN 0
  ELSE (IF isDirectory(tree, Append(dir, Head(list))) /\ ~skipItem(Head(list))
        THEN scanCalls(tree, Append(dir, Head(list)), order)
        ELSE 0)
       + scanCallsItems(tree, dir, order, Tail(list))

scanCalls(tree, dir, order) ==
  1 + scanCallsItems(tree, dir, order, readdirSync(tree, dir, order))

(***************************************************************************)
(* walkInstalled (script 1, lines 85-97).                                  *)
(***************************************************************************)
RECURSIVE walkInstalled(_, _, _)
RECURSIVE walkFiles(_, _, _, _)

walkFile(tree, full, order) ==
  IF ~isDirectory(tree, full) THEN << >>
  ELSE (IF existsSync(tree, Append(full, MANIFEST)) THEN <<full>> ELSE << >>)
       \o walkInstalled(tree, full, order)

walkFiles(tree, dir, order, files) ==
  IF files = << >> THEN << >>
  ELSE walkFile(tree, Append(dir, Head(files)), order)
       \o walkFiles(tree, dir, order, Tail(files))

walkInstalled(tree, dir, order) ==
  walkFiles(tree, dir, order, readdirSync(tree, dir, order))

(***************************************************************************)
(* installLocalSkill (script 1, lines 34-51).                              *)
(*                                                                         *)
(* landed is the part of the source subtree that fs.cpSync writes before   *)
(* it returns or throws: the whole subtree when the copy succeeds, less    *)
(* when it fails part-way (a permission error, a full disk).               *)
(***************************************************************************)
\* An installer that never finds the target.
targetExistsNever(st, targetPath) == FALSE

\* line 39
targetExists(st, targetPath) == existsSync(st, targetPath)

\* lines 44-47
makeTargetParent(st, targetPath) ==
  IF ~existsSync(st, dirname(targetPath))
  THEN mkdirSync(st, dirname(targetPath))
  ELSE st

\* A copy that replaces what the Store holds by what it writes.
cpSyncReplacing(st, landed) ==
  IF landed = {} THEN st
  ELSE landed \cup UNION { Prefixes(q) : q \in landed }

\* A copy that makes the directories and leaves the files out.
cpSyncDirsOnly(st, landed) ==
  st \cup UNION { Prefixes(q) : q \in { r \in landed : Last(r) # MANIFEST } }

\* fs.cpSync(sourcePath, targetPath, {recursive: true}), lines 49 and 257:
\* it creates the missing parents of the target itself.
cpSync(st, landed) ==
  IF landed = {} THEN st
  ELSE st \cup landed \cup UNION { Prefixes(q) : q \in landed }

\* A copy that takes the source away (a move).
cpSourceMoved(rp, sourcePath) == rp \ Subtree(rp, sourcePath)

\* fs.cpSync(sourcePath, ...) reads the source and leaves it as it is.
cpSource(rp, sourcePath) == rp

\* A name that keeps only the last component of the path.
nameIsBasename(skillPath) == <<Last(skillPath)>>

\* line 35: const name = skillPath
nameOf(skillPath) == skillPath

\* The paths of a copy of sourcePath at targetPath: what is at
\* sourcePath/rest in the source is at targetPath/rest in the target.
copiedTo(paths, sourcePath, targetPath) ==
  { targetPath \o SubSeq(q, Len(sourcePath) + 1, Len(q)) : q \in paths }

installLocalSkill(st, rp, skillPath, landed) ==
  LET sourcePath == skillPath
      targetPath == nameOf(skillPath)
      source == Subtree(rp, sourcePath)
  IN IF targetExists(st, targetPath)
     THEN [store |-> st, repo |-> rp, result |-> "skipped"]
     ELSE [store  |-> cpSync(makeTargetParent(st, targetPath),
                             copiedTo(landed \cap source, sourcePath, targetPath)),
           repo   |-> cpSource(rp, sourcePath),
           result |-> IF source # {} /\ source \subseteq landed
                      THEN "installed" ELSE "threw"]

\* What a copy of the subtree src may leave behind: a directory is written
\* before its entries.
Landings(src, top) ==
  { L \in SUBSET src :
      \A q \in L : \A r \in Prefixes(q) : IsPrefix(top, r) => r \in L }

\* What a recursive removal of the subtree sub may take away: the entries of
\* a directory are removed before the directory.
Removals(sub) ==
  { G \in SUBSET sub : \A q \in G : \A r \in sub : IsPrefix(q, r) => r \in G }

(***************************************************************************)
(* The result of one run: the exit status of the process, what it printed  *)
(* and whether it launched the external client (runSkillsCLI).             *)
(***************************************************************************)
Ev(id, what) == [id |-> id, what |-> what]

Run(script, cmd, arg, exit, log, spawned) ==
  [script |-> script, cmd |-> cmd, arg |-> arg, exit |-> exit,
   log |-> log, spawned |-> spawned]

\* An uncaught exception ends a node process with status 1.
ExitOf(result) == IF result = "threw" THEN 1 ELSE 0

\* lines 111 and 155: target.startsWith('http') || target.includes('/')
Url == <<"https:", "r">>

IsRemoteTarget(target) == Head(target) = "https:" \/ Len(target) > 1

\* The command-line arguments of the model; the empty path is no argument.
Args == RepoUniverse \cup {Root}

\* Names made of "." and ".." components, as remove may be given.
DotArgs == { <<".">>, <<"a", "..">> }

(***************************************************************************)
(* Script 1 (lines 1-192).                                                 *)
(***************************************************************************)
\* runSkillsCLI, lines 53-59: spawn returns at once; the callers go on to
\* process.exit(0) in the same tick, so the 'exit' handler never runs.
runSkillsCLI == TRUE

\* line 54: spawn('npx', ['skills', ...]) starts the client; a run that does
\* not reach runSkillsCLI has no client.
spawn == child' = IF last'.spawned THEN "running" ELSE "none"

\* An install of one local skill without the two checks.
installUnchecked(st, rp, target, landed) ==
  installLocalSkill(st, rp, target, landed)

\* lines 110-126 and 155-170: one local skill, after the two checks.
installChecked(st, rp, target, landed) ==
  IF ~existsSync(rp, target)
  THEN [store |-> st, repo |-> rp, result |-> "not found"]
  ELSE IF ~existsSync(rp, Append(target, MANIFEST))
  THEN [store |-> st, repo |-> rp, result |-> "no manifest"]
  ELSE installLocalSkill(st, rp, target, landed)

\* lines 128-130: skills.forEach(s => installLocalSkill(s)); the copy of
\* skills[failAt] lands only landed.  An exception leaves the loop.
RECURSIVE installAll(_, _, _, _, _, _)
\* A loop that installs skills[i] and leaves the rest.
installAllFirstOnly(st, rp, skills, i, failAt, landed) ==
  IF i > Len(skills)
  THEN [store |-> st, repo |-> rp, log |-> << >>, result |-> "done"]
  ELSE LET r == installLocalSkill(st, rp, skills[i],
                  IF i = failAt THEN landed ELSE Subtree(rp, skills[i]))
       IN [store  |-> r.store,
           repo   |-> r.repo,
           log    |-> <<Ev(skills[i], r.result)>>,
           result |-> IF r.result = "threw" THEN "threw" ELSE "done"]

installAll(st, rp, skills, i, failAt, landed) ==
  IF i > Len(skills)
  THEN [store |-> st, repo |-> rp, log |-> << >>, result |-> "done"]
  ELSE LET r == installLocalSkill(st, rp, skills[i],
                  IF i = failAt THEN landed ELSE Subtree(rp, skills[i]))
       IN IF r.result = "threw"
          THEN [store |-> r.store, repo |-> r.repo,
                log |-> <<Ev(skills[i], "threw")>>, result |-> "threw"]
          ELSE LET rest == installAll(r.store, r.repo, skills, i + 1, failAt, landed)
               IN [store  |-> rest.store,
                   repo   |-> rest.repo,
                   log    |-> <<Ev(skills[i], r.result)>> \o rest.log,
                   result |-> rest.result]

\* A list that reads the Store without asking whether it exists.
storeListedAlways(st) == TRUE

\* lines 83 and 221: if (fs.existsSync(skillsDir))
storeListed(st) == existsSync(st, Root)

\* fs.readdirSync of a directory that does not exist throws (ENOENT), and
\* the uncaught exception ends the run with status 1.
listStatus(st) == IF storeListed(st) /\ ~existsSync(st, Root) THEN 1 ELSE 0

\* lines 76-105
List1 ==
  \E order \in Orders :
    LET local == getLocalSkills(repo, Root, order)
        installed == IF storeListed(store)
                     THEN walkInstalled(store, Root, order) ELSE << >>
        shown == [i \in 1..Len(local) |-> Ev(local[i], "local")]
                 \o [i \in 1..Len(installed) |-> Ev(installed[i], "installed")]
    IN /\ last' = Run(1, "list", Root, listStatus(store), shown, FALSE)
       /\ UNCHANGED <<repo, store>>
       /\ spawn
       /\ UNCHANGED pc

\* lines 107-134 with an argument: sync <target>, install <target>
SyncOne1 ==
  \E targetArg \in (Args \ {Root}) \cup {Url} :
    IF IsRemoteTarget(targetArg)
    THEN /\ last' = Run(1, "sync", targetArg, 0, << >>, runSkillsCLI)
         /\ UNCHANGED <<repo, store>>
         /\ spawn
         /\ UNCHANGED pc
    ELSE \E landed \in Landings(Subtree(repo, targetArg), targetArg) :
           LET r == installChecked(store, repo, targetArg, landed)
           IN /\ store' = r.store
              /\ last' = Run(1, "sync", targetArg,
                             IF r.result \in {"skipped", "installed"} THEN 0 ELSE 1,
                             <<Ev(targetArg, r.result)>>, FALSE)
              /\ repo' = r.repo
              /\ spawn
              /\ UNCHANGED pc

\* lines 107-134 without an argument: sync, install
SyncAll1 ==
  \E order \in Orders :
    LET skills == getLocalSkills(repo, Root, order)
    IN \E failAt \in 0..Len(skills) :
         \E landed \in (IF failAt = 0 THEN {{}}
                        ELSE Landings(Subtree(repo, skills[failAt]), skills[failAt])) :
           LET r == installAll(store, repo, skills, 1, failAt, landed)
           IN /\ store' = r.store
              /\ last' = Run(1, "sync", Root, ExitOf(r.result), r.log, FALSE)
              /\ repo' = r.repo
              /\ spawn
              /\ UNCHANGED pc

\* lines 148-172
Add1 ==
  \E target \in Args \cup {Url} :
    IF target = Root
    THEN /\ last' = Run(1, "add", target, 1, << >>, FALSE)
         /\ UNCHANGED <<repo, store>>
         /\ spawn
         /\ UNCHANGED pc
    ELSE IF IsRemoteTarget(target)
    THEN /\ last' = Run(1, "add", target, 0, << >>, runSkillsCLI)
         /\ UNCHANGED <<repo, store>>
         /\ spawn
         /\ UNCHANGED pc
    ELSE \E landed \in Landings(Subtree(repo, target), target) :
           LET r == installChecked(store, repo, target, landed)
           IN /\ store' = r.store
              /\ last' = Run(1, "add", target,
                             IF r.result \in {"skipped", "installed"} THEN 0 ELSE 1,
                             <<Ev(target, r.result)>>, FALSE)
              /\ repo' = r.repo
              /\ spawn
              /\ UNCHANGED pc

\* lines 174-188
Remove1 ==
  \E skillName \in Args \cup DotArgs :
    IF skillName = Root
    THEN /\ last' = Run(1, "remove", skillName, 1, << >>, FALSE)
         /\ UNCHANGED <<repo, store>>
         /\ spawn
         /\ UNCHANGED pc
    ELSE IF existsSync(store, join(Root, skillName))
    THEN \E gone \in Removals(Subtree(store, join(Root, skillName))) :
           LET whole == gone = Subtree(store, join(Root, skillName))
           IN /\ store' = rmSync(store, gone)
              /\ last' = Run(1, "remove", skillName, IF whole THEN 0 ELSE 1,
                             <<Ev(skillName, IF whole THEN "removed" ELSE "threw")>>,
                             FALSE)
              /\ UNCHANGED repo
              /\ spawn
              /\ UNCHANGED pc
    ELSE /\ last' = Run(1, "remove", skillName, 0, << >>, runSkillsCLI)
         /\ UNCHANGED <<repo, store>>
         /\ spawn
         /\ UNCHANGED pc

\* lines 136-146: search with or without a query
Search1 ==
  /\ last' = Run(1, "search", Root, 0, << >>, runSkillsCLI)
  /\ UNCHANGED <<repo, store>>
  /\ spawn
  /\ UNCHANGED pc

\* An unknown command that leaves the script with status 0.
unknownCommandFallsThrough(script) ==
  Run(script, "unknown", Root, 0, <<Ev(Root, "unknown command")>>, FALSE)

\* lines 190-192 and 270-273: the message and process.exit(1)
unknownCommand(script) ==
  Run(script, "unknown", Root, 1, <<Ev(Root, "unknown command")>>, FALSE)

\* lines 190-192: a command that is none of the above
Unknown1 ==
  /\ last' = unknownCommand(1)
  /\ UNCHANGED <<repo, store>>
  /\ spawn
  /\ UNCHANGED pc

(***************************************************************************)
(* Script 2 (lines 194-273).                                               *)
(***************************************************************************)
\* lines 210-230
List2 ==
  \E order \in Orders :
    LET items == readdirSync(repo, Root, order)
        local == SelectSeq(items, LAMBDA item :
                   isDirectory(repo, <<item>>) /\ item \notin ExcludedNames)
        installed == IF storeListed(store)
                     THEN readdirSync(store, Root, order) ELSE << >>
        shown == [i \in 1..Len(local) |-> Ev(<<local[i]>>, "local")]
                 \o [i \in 1..Len(installed) |-> Ev(<<installed[i]>>, "installed")]
    IN /\ last' = Run(2, "list", Root, listStatus(store), shown, FALSE)
       /\ UNCHANGED <<repo, store>>
       /\ spawn
       /\ UNCHANGED pc

\* lines 232-259
Add2 ==
  \E skillName \in Args :
    IF skillName = Root
    THEN /\ last' = Run(2, "add", skillName, 1, << >>, FALSE)
         /\ UNCHANGED <<repo, store>>
         /\ spawn
         /\ UNCHANGED pc
    ELSE IF ~existsSync(repo, skillName)
    THEN /\ last' = Run(2, "add", skillName, 1, <<Ev(skillName, "not found")>>, FALSE)
         /\ UNCHANGED <<repo, store>>
         /\ spawn
         /\ UNCHANGED pc
    ELSE LET made == IF ~existsSync(store, Root) THEN mkdirSync(store, Root) ELSE store
         IN IF existsSync(made, skillName)
            THEN /\ store' = made
                 /\ last' = Run(2, "add", skillName, 1,
                                <<Ev(skillName, "already installed")>>, FALSE)
                 /\ UNCHANGED repo
                 /\ spawn
                 /\ UNCHANGED pc
            ELSE \E landed \in Landings(Subtree(repo, skillName), skillName) :
                   LET whole == landed = Subtree(repo, skillName)
                   IN /\ store' = cpSync(made, landed)
                      /\ last' = Run(2, "add", skillName, IF whole THEN 0 ELSE 1,
                                     <<Ev(skillName, IF whole THEN "installed" ELSE "threw")>>,
                                     FALSE)
                      /\ repo' = cpSource(repo, skillName)
                      /\ spawn
                      /\ UNCHANGED pc

\* lines 232-239 and 261-269
Remove2 ==
  \E skillName \in Args \cup DotArgs :
    IF skillName = Root
    THEN /\ last' = Run(2, "remove", skillName, 1, << >>, FALSE)
         /\ UNCHANGED <<repo, store>>
         /\ spawn
         /\ UNCHANGED pc
    ELSE IF ~existsSync(store, join(Root, skillName))
    THEN /\ last' = Run(2, "remove", skillName, 1,
                        <<Ev(skillName, "not installed")>>, FALSE)
         /\ UNCHANGED <<repo, store>>
         /\ spawn
         /\ UNCHANGED pc
    ELSE \E gone \in Removals(Subtree(store, join(Root, skillName))) :
           LET whole == gone = Subtree(store, join(Root, skillName))
           IN /\ store' = rmSync(store, gone)
              /\ last' = Run(2, "remove", skillName, IF whole THEN 0 ELSE 1,
                             <<Ev(skillName, IF whole THEN "removed" ELSE "threw")>>,
                             FALSE)
              /\ UNCHANGED repo
              /\ spawn
              /\ UNCHANGED pc

\* lines 232-236 and 270-273: a command that is not list, add or remove
Unknown2 ==
  \E skillName \in Args :
    /\ last' = IF skillName = Root
               THEN Run(2, "unknown", Root, 1, <<Ev(Root, "no name")>>, FALSE)
               ELSE unknownCommand(2)
    /\ UNCHANGED <<repo, store>>
    /\ spawn
    /\ UNCHANGED pc

(***************************************************************************)
(* The external client (npx skills), started by runSkillsCLI.  The script  *)
(* has left with process.exit(0) by the time the client does anything, so  *)
(* its 'exit' handler (line 58) never runs and the recorded status stays.  *)
(***************************************************************************)
\* The client of add <url> clones the repository into a temporary directory.
ClientClone ==
  /\ child = "running"
  /\ last.cmd \in {"add", "sync"}
  /\ child' = "cloned"
  /\ UNCHANGED <<repo, store, last, pc>>

\* The client exits, with status 0 or with an error; it takes its temporary
\* clone with it.
ClientExit ==
  /\ child \in {"running", "cloned"}
  /\ \E code \in {0, 1} : child' = IF code = 0 THEN "ok" ELSE "failed"
  /\ UNCHANGED <<repo, store, last, pc>>

(***************************************************************************)
(* Two runs of script 1 at the same time (add <id> or sync <id> in two     *)
(* terminals): each is a process of its own on the same Store, and the     *)
(* file system interleaves the calls of installLocalSkill: the test of     *)
(* line 39, then the mkdirSync and cpSync of lines 44-49.                  *)
(***************************************************************************)
Procs == {1, 2}

At(at, id) == [at |-> at, id |-> id]

\* line 39: if (fs.existsSync(targetPath)) { ...; return; }
CheckTarget(p) ==
  /\ pc[p].at = "start"
  /\ \E skillPath \in { id \in Args \ {Root} : hasManifest(repo, id) } :
       pc' = [pc EXCEPT ![p] =
                At(IF targetExists(store, nameOf(skillPath)) THEN "skipped" ELSE "checked",
                   skillPath)]
  /\ UNCHANGED <<repo, store, last, child>>

\* lines 44-50: the parent, the copy and the message
CopyTarget(p) ==
  /\ pc[p].at = "checked"
  /\ LET skillPath == pc[p].id
         source == Subtree(repo, skillPath)
     IN \E landed \in Landings(source, skillPath) :
          /\ store' = cpSync(makeTargetParent(store, nameOf(skillPath)),
                             copiedTo(landed, skillPath, nameOf(skillPath)))
          /\ pc' = [pc EXCEPT ![p] =
                      At(IF landed = source THEN "installed" ELSE "threw", skillPath)]
  /\ UNCHANGED <<repo, last, child>>

NextRace ==
  \E p \in Procs :
    \/ CheckTarget(p)
    \/ CopyTarget(p)

(***************************************************************************)
(* The local repository: the checkout that holds bin/cli.js (line 11), so  *)
(* bin is always one of its directories; it holds the CLI and no manifest. *)
(***************************************************************************)
PrefixClosed(D) == \A d \in D : \A q \in Prefixes(d) : q = Root \/ q \in D

RepoDirSets ==
  { D \in SUBSET RepoUniverse :
      /\ <<"bin">> \in D
      /\ PrefixClosed(D)
      /\ Cardinality(D) <= MaxRepoDirs }

TreeOf(D, M) == {Root} \cup D \cup { Append(d, MANIFEST) : d \in M }

RepoTrees ==
  UNION { { TreeOf(D, M) : M \in SUBSET (D \ {<<"bin">>}) } : D \in RepoDirSets }

Init ==
  /\ repo \in RepoTrees
  /\ store = {}
  /\ last = Run(0, "none", Root, 0, << >>, FALSE)
  /\ child = "none"
  /\ pc = [p \in Procs |-> At("start", Root)]

Next ==
  \/ List1
  \/ SyncOne1
  \/ SyncAll1
  \/ Add1
  \/ Remove1
  \/ Search1
  \/ Unknown1
  \/ List2
  \/ Add2
  \/ Remove2
  \/ Unknown2
  \/ ClientClone
  \/ ClientExit

Spec == Init /\ [][Next]_vars

(***************************************************************************)
(* The scanner on its own: any tree as the local root, the root's own      *)
(* manifest included, and the list command applied to it.                  *)
(***************************************************************************)
ScanTrees ==
  UNION { { TreeOf(D, M) : M \in SUBSET (D \cup {Root}) } :
          D \in { E \in SUBSET DirUniverse : PrefixClosed(E) } }

InitScan ==
  /\ repo \in ScanTrees
  /\ store = {}
  /\ last = Run(0, "none", Root, 0, << >>, FALSE)
  /\ child = "none"
  /\ pc = [p \in Procs |-> At("start", Root)]

SpecScan == InitScan /\ [][List1]_vars

\* Two concurrent installs on a Store that does not exist yet.
SpecRace == Init /\ [][NextRace]_vars

(***************************************************************************)
(* The Store as add leaves it and list shows it: any local tree of at most *)
(* MaxRepoDirs directories, where a skill may hold a directory with an     *)
(* excluded name that has a manifest of its own; the bin of the checkout   *)
(* holds none.                                                             *)
(***************************************************************************)
StoreTrees ==
  UNION { { TreeOf(D, M) : M \in SUBSET (D \ {<<"bin">>}) } :
          D \in { E \in SUBSET DirUniverse :
                    PrefixClosed(E) /\ Cardinality(E) <= MaxRepoDirs } }

InitStore ==
  /\ repo \in StoreTrees
  /\ store = {}
  /\ last = Run(0, "none", Root, 0, << >>, FALSE)
  /\ child = "none"
  /\ pc = [p \in Procs |-> At("start", Root)]

NextStore ==
  \/ Add1
  \/ List1

SpecStore == InitStore /\ [][NextStore]_vars

(***************************************************************************)
(* What the runs are checked against.                                      *)
(***************************************************************************)
\* The identifiers a run printed with the mark what.
Shown(run, what) == { e.id : e \in { f \in SeqRange(run.log) : f.what = what } }

\* The directories below the root of tree that directly hold the manifest
\* and have no excluded name on their path.
ManifestDirs(tree) ==
  { d \in tree :
      /\ d # Root
      /\ Last(d) # MANIFEST
      /\ Append(d, MANIFEST) \in tree
      /\ \A i \in 1..Len(d) : d[i] \notin ExcludedNames }

\* A run of script 1 that reached installLocalSkill(id) and got result what.
Installer1(run, id, what) ==
  /\ run.script = 1
  /\ run.cmd \in {"add", "sync"}
  /\ id \in Shown(run, what)

\* A run of script 1 for the one identifier id (add id, sync id).
Single1(run, id) ==
  /\ run.script = 1
  /\ run.cmd \in {"add", "sync"}
  /\ run.arg = id
  /\ id # Root

\* What the other installs of a run wrote: the subtrees of the identifiers,
\* other than id, that the run copied or began to copy.
WrittenByOthers(run, st, id) ==
  UNION { Subtree(st, j) :
          j \in (Shown(run, "installed") \cup Shown(run, "threw")) \ {id} }

\* C1: an install of a skill whose identifier is already in the Store (add or
\* sync, either script) is reported as skipped and not as an error, does not end
\* the run with a non-zero status, and leaves the subtree of the identifier
\* as it was (but for what the run's installs of other identifiers wrote).
C1_InstallOfExistingIsSkip ==
  [][\A id \in DirUniverse :
       ( /\ last'.cmd \in {"add", "sync"}
         /\ hasManifest(repo, id)
         /\ hasManifest(store, id)
         /\ id \in Shown(last', "skipped") \cup Shown(last', "installed")
                   \cup Shown(last', "threw") \cup Shown(last', "already installed") )
       => /\ id \in Shown(last', "skipped")
          /\ last'.exit = 0 \/ Shown(last', "threw") # {}
          /\ Subtree(store', id) \ WrittenByOthers(last', store', id)
               = Subtree(store, id) \ WrittenByOthers(last', store', id)]_vars

\* C2: list shows as local skills exactly the directories below the root
\* that directly hold SKILL.md and have no component named bin, .git or
\* node_modules.
C2_ScannerExact ==
  (last.script = 1 /\ last.cmd = "list") => Shown(last, "local") = ManifestDirs(repo)

\* C2 witness: a listed tree with a skill below a directory that has no
\* manifest, and manifests inside excluded directories at both depths.
C2_Witness ==
  /\ last.script = 1 /\ last.cmd = "list"
  /\ <<"a", "b">> \in Shown(last, "local")
  /\ <<"a", MANIFEST>> \notin repo
  /\ <<"a", "bin", MANIFEST>> \in repo
  /\ <<"bin", "a", MANIFEST>> \in repo

\* C3: an install of id by script 1 that directly follows a completed install
\* of id (installed or skipped) is reported as skipped, ends with status 0
\* and leaves the Store as the first install left it.
C3_InstallIdempotent ==
  [][\A id \in DirUniverse :
       ( /\ Single1(last, id) /\ last.exit = 0 /\ ~last.spawned
         /\ Single1(last', id) )
       => /\ last'.log = <<Ev(id, "skipped")>>
          /\ last'.exit = 0
          /\ store' = store]_vars

\* C3 witness: a skipped install of an identifier right after the run that
\* installed it.
C3_Witness ==
  /\ Single1(last, <<"a">>)
  /\ last.log = <<Ev(<<"a">>, "skipped")>>
  /\ Subtree(store, <<"a">>) = Subtree(repo, <<"a">>)
  /\ <<"a", "b", MANIFEST>> \in store

\* C4: after installLocalSkill(id) succeeds, store_root/id exists and the
\* installed-skills enumeration of list includes id, whatever the order of
\* the directory entries.
C4_InstallRoundTrip ==
  \A id \in DirUniverse :
    Installer1(last, id, "installed")
    => /\ existsSync(store, id)
       /\ \A order \in Orders : id \in SeqRange(walkInstalled(store, Root, order))

\* C4 witness: a sync that installed a nested identifier.
C4_Witness ==
  /\ Installer1(last, <<"a", "b">>, "installed")
  /\ last.arg = Root

\* C5: after remove id succeeds, store_root/id does not exist and nothing is
\* left below it.
C5_RemovalComplete ==
  \A id \in DirUniverse :
    (last.cmd = "remove" /\ id \in Shown(last, "removed"))
    => Subtree(store, id) = {}

\* C5 witness: a successful removal of an identifier with a nested skill
\* below it, while another entry stays in the Store.
C5_Witness ==
  /\ last.cmd = "remove" /\ <<"a">> \in Shown(last, "removed")
  /\ <<"a", "b", MANIFEST>> \in repo
  /\ <<"bin">> \in store

\* C6: remove of a name that is not in the Store ends with exit status 1 and
\* leaves the Store unchanged (either script).
C6_RemoveMissingFails ==
  [][\A id \in DirUniverse :
       (last'.cmd = "remove" /\ last'.arg = id /\ ~existsSync(store, id))
       => (last'.exit = 1 /\ store' = store)]_vars

\* C7: add <path> of script 1, for a path of any depth that directly holds
\* SKILL.md in the local root and is not in the Store, is handled by the
\* local installer, and when the copy succeeds the skill is at
\* store_root/<path>.
C7_AddLocalPath ==
  [][\A id \in DirUniverse :
       ( /\ last'.script = 1 /\ last'.cmd = "add" /\ last'.arg = id
         /\ hasManifest(repo, id)
         /\ ~existsSync(store, id) )
       => /\ ~last'.spawned
          /\ id \in Shown(last', "installed") \cup Shown(last', "threw")
          /\ id \in Shown(last', "installed")
               => Subtree(store', id) = Subtree(repo, id)]_vars

\* C8: add <path> of script 1 ends with exit status 1 and leaves the Store
\* unchanged when local_root/<path> does not exist or does not directly hold
\* SKILL.md.
C8_AddInvalidFails ==
  [][\A id \in DirUniverse :
       ( /\ last'.script = 1 /\ last'.cmd = "add" /\ last'.arg = id
         /\ (~existsSync(repo, id) \/ ~hasManifest(repo, id)) )
       => (last'.exit = 1 /\ store' = store)]_vars

\* C9: a sync without argument over two or more discovered skills attempts
\* every one of them, also after the install of one of them failed, and ends
\* with exit status 0.
C9_SyncIsolatesFailure ==
  [][( /\ last'.script = 1 /\ last'.cmd = "sync" /\ last'.arg = Root
       /\ Cardinality(ManifestDirs(repo)) >= 2 )
       => /\ last'.exit = 0
          /\ ManifestDirs(repo) \subseteq { e.id : e \in SeqRange(last'.log) }]_vars

\* C10: an install reported as a success has landed the whole source subtree,
\* and an install of an identifier whose copy has just failed is not
\* reported as skipped.
C10_CopyAllOrNothing ==
  [][\A id \in DirUniverse :
       /\ Installer1(last', id, "installed") => Subtree(repo, id) \subseteq store'
       /\ (Installer1(last, id, "threw") /\ last'.script = 1
             /\ last'.cmd \in {"add", "sync"})
          => id \notin Shown(last', "skipped")]_vars

\* A run of script 1 that handed its argument to the external client and
\* has returned.
Remote1(run, cmd) ==
  /\ run.script = 1
  /\ run.cmd = cmd
  /\ run.spawned

\* C11: once a remote add (add <url>) has returned, no temporary clone that
\* its client made is on disk.
C11_NoCloneLeftAtReturn ==
  (Remote1(last, "add") /\ last.arg = Url) => child # "cloned"

\* C12: a run that launched the external client (remote add or install,
\* search, the fallback of remove) has not reached its final exit before
\* the client has exited.
C12_BlocksOnClient ==
  last.spawned => child \in {"ok", "failed"}

\* C13: add <url> whose client failed (fetch or validation) has exit status 1.
C13_RemoteFailureExitsOne ==
  (Remote1(last, "add") /\ last.arg = Url /\ child = "failed") => last.exit = 1

\* C14: an install of the skill at local_root/id has put it at store_root/id:
\* the subtree of id in the Store is the subtree of id in the local root, at
\* any depth of id.
C14_IdentifierStable ==
  \A id \in DirUniverse :
    (last.cmd \in {"add", "sync"} /\ id \in Shown(last, "installed"))
    => Subtree(store, id) = Subtree(repo, id)

\* C14 witness: a nested skill, below a directory that is no skill, copied
\* by sync to the same relative path.
C14_Witness ==
  /\ Installer1(last, <<"a", "b">>, "installed")
  /\ <<"a", MANIFEST>> \notin repo
  /\ <<"a", "b", MANIFEST>> \in store

\* C15: when a skill directory has another skill directory in its subtree
\* (no excluded name on the path), list shows both as local skills.
C15_NestedSkillsBothFound ==
  \A outer \in DirUniverse : \A inner \in DirUniverse :
    ( /\ last.script = 1 /\ last.cmd = "list"
      /\ outer # inner /\ IsPrefix(outer, inner)
      /\ outer \in ManifestDirs(repo)
      /\ inner \in ManifestDirs(repo) )
    => {outer, inner} \subseteq Shown(last, "local")

\* C15 witness: a listed tree where a and a/b are both skills.
C15_Witness ==
  /\ last.script = 1 /\ last.cmd = "list"
  /\ {<<"a">>, <<"a", "b">>} \subseteq ManifestDirs(repo)
  /\ {<<"a">>, <<"a", "b">>} \subseteq Shown(last, "local")

\* The Store holds nothing but whole copies of directories of the local root.
WholeCopies(st, rp) ==
  \A id \in DirUniverse : (Len(id) = 1 /\ id \in st) => Subtree(st, id) = Subtree(rp, id)

\* C16: on a Store of whole copies, the installed skills that list shows are
\* what the scanner of the local root (getLocalSkills) gives on the Store,
\* excluded names included.
C16_ListIsScannerOnStore ==
  (last.script = 1 /\ last.cmd = "list" /\ WholeCopies(store, repo))
  => \A order \in Orders :
       Shown(last, "installed") = SeqRange(getLocalSkills(store, Root, order))

\* C17: list on a Store that does not exist shows no installed skill, ends
\* with exit status 0 and does not create the Store (either script).
C17_ListWithoutStore ==
  [][(last'.cmd = "list" /\ ~existsSync(store, Root))
       => /\ Shown(last', "installed") = {}
          /\ last'.exit = 0
          /\ ~existsSync(store', Root)]_vars

\* C17 witness: a list that showed local skills while there is no Store.
C17_Witness ==
  /\ last.cmd = "list"
  /\ Shown(last, "local") # {}
  /\ ~existsSync(store, Root)

\* C18: after a sync without argument in which no install failed, every
\* identifier the scanner gives on the local root exists in the Store.
C18_SyncInstallsAll ==
  (last.script = 1 /\ last.cmd = "sync" /\ last.arg = Root /\ last.exit = 0)
  => \A order \in Orders :
       \A id \in SeqRange(getLocalSkills(repo, Root, order)) : existsSync(store, id)

\* C18 witness: a sync that copied one skill and skipped another that was
\* already in the Store.
C18_Witness ==
  /\ last.script = 1 /\ last.cmd = "sync" /\ last.arg = Root /\ last.exit = 0
  /\ Shown(last, "installed") # {}
  /\ Shown(last, "skipped") # {}
  /\ Shown(last, "installed") \cup Shown(last, "skipped") \subseteq store

\* C19: a run with an unknown command prints a message about the command,
\* ends with a non-zero exit status and changes neither the Store nor the
\* local root (either script).
C19_UnknownVerbFails ==
  [][last'.cmd = "unknown"
       => /\ last'.log # << >>
          /\ last'.exit # 0
          /\ ~last'.spawned
          /\ store' = store
          /\ repo' = repo]_vars

\* C19 witness: an unknown command of script 1 on a Store that holds a skill.
C19_Witness ==
  /\ last.script = 1 /\ last.cmd = "unknown"
  /\ last.exit = 1
  /\ <<"a", MANIFEST>> \in store

\* C20: of two runs that install the same identifier at the same time at
\* most one makes the copy: the two never both copy the skill and report it
\* installed.
C20_RaceOneCopies ==
  \A p \in Procs : \A q \in Procs \ {p} :
    (pc[p].at = "installed" /\ pc[q].id = pc[p].id) => pc[q].at # "installed"

\* The installed skills of a Store: its directories that hold the manifest.
Entries(st) == { d \in st : d # Root /\ Last(d) # MANIFEST /\ hasManifest(st, d) }

\* C21: a sync without argument adds, changes and removes nothing at or below
\* a Store entry that was there before it started, nested skills included.
C21_SyncKeepsEntries ==
  [][(last'.script = 1 /\ last'.cmd = "sync" /\ last'.arg = Root)
       => \A id \in Entries(store) : Subtree(store', id) = Subtree(store, id)]_vars

\* C22: remove <name> on a Store that holds installed skills deletes nothing
\* but paths at or below store_root/<name>, never store_root itself, whatever
\* the name ("." and ".." components included).
C22_RemoveOnlyBelowName ==
  [][(last'.cmd = "remove" /\ Entries(store) # {})
       => \A q \in store \ store' : q # Root /\ IsPrefix(last'.arg, q)]_vars

\* C23: no run other than remove (list, sync, install, add, search, an
\* unknown command) makes a path of the Store disappear.
C23_OnlyRemoveDeletes ==
  [][last'.cmd # "remove" => store \subseteq store']_vars

\* C23 witness: an add that installed b into a Store that already held the
\* skill a, which is still there.
C23_Witness ==
  /\ last.cmd = "add"
  /\ <<"b">> \in Shown(last, "installed")
  /\ <<"a", MANIFEST>> \in store
  /\ <<"b", MANIFEST>> \in store

\* C24: an add or a sync leaves the tree of the local root as it was (so
\* the scanner, which reads nothing but that tree, gives the same identifiers
\* before and after the run).
C24_InstallKeepsSource ==
  [][last'.cmd \in {"add", "sync"} => repo' = repo]_vars

\* C24 witness: a sync that copied the skill a and its inner skill a/b, both
\* still in the local root.
C24_Witness ==
  /\ last.cmd = "sync" /\ last.arg = Root
  /\ <<"a">> \in Shown(last, "installed")
  /\ <<"a", "b", MANIFEST>> \in store
  /\ <<"a", "b", MANIFEST>> \in repo

\* C25: whenever a run of script 1 (add <path>, sync <name>, sync) reaches
\* installLocalSkill for an identifier, the source directory of the
\* identifier exists and directly holds SKILL.md.
C25_InstallOnlyOfSkills ==
  \A id \in DirUniverse :
    (\E what \in {"installed", "threw", "skipped"} : Installer1(last, id, what))
    => existsSync(repo, id) /\ hasManifest(repo, id)

\* C25 witness: a sync that installed the skill a and left out the directory
\* b of the local root, which has no manifest.
C25_Witness ==
  /\ Installer1(last, <<"a">>, "installed") /\ last.arg = Root
  /\ <<"b">> \in repo
  /\ ~hasManifest(repo, <<"b">>)
  /\ <<"b">> \notin store

\* C26: when an install of a nested identifier (category/skill) succeeds while
\* store_root or store_root/category did not exist, the missing parents
\* exist afterwards and the skill is at store_root/category/skill.
C26_ParentsCreated ==
  [][\A id \in DirUniverse :
       ( /\ Len(id) > 1
         /\ Installer1(last', id, "installed")
         /\ ~existsSync(store, dirname(id)) )
       => /\ Prefixes(id) \subseteq store'
          /\ hasManifest(store', id)]_vars

\* C26 witness: a sync on a machine without a Store that installed a/b and
\* made store_root and store_root/a for it.
C26_Witness ==
  /\ Installer1(last, <<"a", "b">>, "installed")
  /\ store = {Root, <<"a">>, <<"a", "b">>, <<"a", "b", MANIFEST>>}

\* The lexicographic order of relative paths: names compare as strings
\* ("a" < "b" < "bin"), a path comes before the paths below it.
NameRank(n) == CASE n = "a" -> 1 [] n = "b" -> 2 [] n = "bin" -> 3 [] OTHER -> 0

RECURSIVE PathLess(_, _)
PathLess(p, q) ==
  IF p = << >> THEN q # << >>
  ELSE IF q = << >> THEN FALSE
  ELSE IF Head(p) = Head(q) THEN PathLess(Tail(p), Tail(q))
  ELSE NameRank(Head(p)) < NameRank(Head(q))

\* The identifiers a run printed with the mark what, in the order printed.
ShownSeq(run, what) == SelectSeq(run.log, LAMBDA e : e.what = what)

Sorted(events) ==
  \A i \in 1..Len(events) : \A j \in 1..Len(events) :
    i < j => PathLess(events[i].id, events[j].id)

\* C27: list prints the local identifiers, and the installed ones, in
\* lexicographic order of their paths, whatever the order in which the file
\* system gives the directory entries.
C27_ListSorted ==
  (last.script = 1 /\ last.cmd = "list")
  => Sorted(ShownSeq(last, "local")) /\ Sorted(ShownSeq(last, "installed"))

\* A sync without argument that ended without failure.
SyncDone(run) ==
  run.script = 1 /\ run.cmd = "sync" /\ run.arg = Root /\ run.exit = 0

\* C28: a sync without argument that directly follows a sync without argument
\* that ended without failure skips every discovered skill and leaves the
\* Store as it was.
C28_SecondSyncSkipsAll ==
  [][( /\ SyncDone(last)
       /\ last'.script = 1 /\ last'.cmd = "sync" /\ last'.arg = Root )
       => /\ store' = store
          /\ last'.exit = 0
          /\ Shown(last', "skipped") = ManifestDirs(repo)
          /\ \A i \in 1..Len(last'.log) : last'.log[i].what = "skipped"]_vars

\* C28 witness: a sync that skipped an outer and an inner skill, both whole
\* in the Store.
C28_Witness ==
  /\ SyncDone(last)
  /\ Shown(last, "skipped") = {<<"a">>, <<"a", "b">>}
  /\ Shown(last, "installed") = {}
  /\ Subtree(store, <<"a">>) = Subtree(repo, <<"a">>)

\* C29: on a finite tree the scanner ends after at most one call for each
\* directory of the tree, and list shows no local identifier twice.
C29_ScannerEndsNoDuplicates ==
  (last.script = 1 /\ last.cmd = "list")
  => /\ Len(ShownSeq(last, "local")) = Cardinality(Shown(last, "local"))
     /\ \A order \in Orders :
          scanCalls(repo, Root, order)
            <= Cardinality({ d \in repo : isDirectory(repo, d) })

\* C29 witness: a listed tree with skills at two depths, three of them found.
C29_Witness ==
  /\ last.script = 1 /\ last.cmd = "list"
  /\ Len(ShownSeq(last, "local")) = 3
  /\ {<<"a">>, <<"a", "b">>, <<"b">>} = Shown(last, "local")

====
